---- MODULE Spec2Model ----
(***************************************************************************)
(* The key-sequence interpreter of vscode-modal-editor                      *)
(* (src/src/keybindings.ts): the KeyEventHandler state machine, the keymap  *)
(* lookup, and the asynchronous mode switch that attaches and detaches the  *)
(* interpreter from the editor's 'type' command.                            *)
(*                                                                         *)
(* Strings are sequences of one-character strings: "wq" is <<"w","q">>,     *)
(* the wildcard key "" is <<>>, concatenation is \o.  A Keymap is a         *)
(* JavaScript object, so a field that holds one holds a reference: keymaps  *)
(* are named nodes of the configuration and Keymaps[n] gives the            *)
(* properties of node n.                                                   *)
(***************************************************************************)
EXTENDS Naturals, Sequences, FiniteSets, TLC

\* ---------------------------------------------------------------- bounds

\* Longest keys buffer a handler is driven to (the code has no limit).
MaxKeys == 3
\* Longest count prefix a handler is driven to (the code has no limit).
MaxCount == 2
\* Number of setMode calls that may be in flight at once.
MaxCalls == 2

\* ------------------------------------------------------------ characters

Digits == {"0", "1", "2"}
Letters == {"a", "b", "c", "g", "j", "w", "q", "x"}
Newline == "\n"
Chars == Digits \cup Letters \cup {Newline}

\* The text of one 'type' event: a string of one character.
KeyTexts == {<<c>> : c \in Chars}

DigitValue(c) == CASE c = "0" -> 0 [] c = "1" -> 1 [] c = "2" -> 2

\* ------------------------------------------------------- keymap values

\* JavaScript undefined (an absent keymap, an absent binding, no return value)
Undefined == "undefined"

\* Commands bound in the modelled configuration.  Each is a non-empty
\* host-command identifier, hence a truthy value.
Commands == {"cmd1", "cmd2", "cmd3", "cursorDown", "cursorTop", "cursorLineStart",
             "cmd", "cmdA", "cmdBa", "cmdBany", "cmdAnyC", "cmdCx",
             "saveAndClose", "cmdWX", "cmdEmptyLine", "commonWX", "cmdD", "cmdOne"}

\* The keymap objects of the modelled configuration, by reference.
\*   D  = {a: {b: cmd1}}                     DC = {a: {c: cmd2}}
\*   N  = {j: cursorDown, g: {g: cursorTop, 2: cmd}, 0: cursorLineStart,
\*         1: cmdOne}
\*   W  = {a: cmdA, b: {a: cmdBa, "": cmdBany}, "": {c: cmdAnyC}}
\*   WC = {x: {"": cmdCx}, a: cmd2}
\*   X  = {wq: saveAndClose, w: {x: cmdWX}, "": cmdEmptyLine}
\*   XC = {wx: commonWX, w: {q: cmd3}}
\*   S  = {a: {}}                            SC = {a: cmd3, b: {c: cmdD}}
Keymaps ==
    "D"    :> (<<"a">> :> "Da")
 @@ "Da"   :> (<<"b">> :> "cmd1")
 @@ "DC"   :> (<<"a">> :> "DCa")
 @@ "DCa"  :> (<<"c">> :> "cmd2")
 @@ "N"    :> (<<"j">> :> "cursorDown" @@ <<"g">> :> "Ng" @@ <<"0">> :> "cursorLineStart"
               @@ <<"1">> :> "cmdOne")
 @@ "Ng"   :> (<<"g">> :> "cursorTop" @@ <<"2">> :> "cmd")
 @@ "W"    :> (<<"a">> :> "cmdA" @@ <<"b">> :> "Wb" @@ <<>> :> "Wany")
 @@ "Wb"   :> (<<"a">> :> "cmdBa" @@ <<>> :> "cmdBany")
 @@ "Wany" :> (<<"c">> :> "cmdAnyC")
 @@ "WC"   :> (<<"x">> :> "WCx" @@ <<"a">> :> "cmd2")
 @@ "WCx"  :> (<<>> :> "cmdCx")
 @@ "X"    :> (<<"w", "q">> :> "saveAndClose" @@ <<"w">> :> "Xw" @@ <<>> :> "cmdEmptyLine")
 @@ "Xw"   :> (<<"x">> :> "cmdWX")
 @@ "XC"   :> (<<"w", "x">> :> "commonWX" @@ <<"w">> :> "XCw")
 @@ "XCw"  :> (<<"q">> :> "cmd3")
 @@ "S"    :> (<<"a">> :> "Sa")
 @@ "Sa"   :> <<>>
 @@ "SC"   :> (<<"a">> :> "cmd3" @@ <<"b">> :> "SCb")
 @@ "SCb"  :> (<<"c">> :> "cmdD")

KeymapRefs == DOMAIN Keymaps

\* The (keymap, commonKeymap) pairs a handler is constructed with.
KeymapPairs == {<<"D", "DC">>, <<"N", Undefined>>, <<"W", "WC">>, <<"X", "XC">>,
                <<"S", "SC">>, <<Undefined, "DC">>, <<Undefined, Undefined>>}

\* --------------------------------------------------------- pure functions

isCommand(value) == value \in Commands

has(keymap, name) == name \in DOMAIN Keymaps[keymap]

\* the lookup that prefers the wildcard
getFromKeymap_wildcardFirst(keymap, key) ==
    IF keymap # Undefined
    THEN IF has(keymap, <<>>) THEN Keymaps[keymap][<<>>]
         ELSE IF has(keymap, key) THEN Keymaps[keymap][key]
         ELSE Undefined
    ELSE Undefined

getFromKeymap(keymap, key) ==
    IF keymap # Undefined
    THEN IF has(keymap, key) THEN Keymaps[keymap][key]
         ELSE IF has(keymap, <<>>) THEN Keymaps[keymap][<<>>]
         ELSE Undefined
    ELSE Undefined

\* isNum that allows a leading zero
isNum_anyDigit(key, isFirst) == Len(key) = 1 /\ key[1] \in Digits

isNum(key, isFirst) ==
    IF isFirst
    THEN Len(key) = 1 /\ key[1] \in Digits \ {"0"}
    ELSE Len(key) = 1 /\ key[1] \in Digits

\* `if (value)`: every keymap object and every command of Commands is truthy,
\* so the test fails on undefined only.
Truthy(value) == value # Undefined

\* ------------------------------------------------------- KeyEventHandler

VARIABLES
    keyEventHandler,          \* appState.keyEventHandler: the handler object
    result,                   \* how the latest call of handle ended
    input,                    \* the keys handed to handle in the current sequence
    dispatched,               \* what the latest handleKey call dispatched
    mode,                     \* appState.mode
    typeCommandSubscription,  \* the held 'type' subscription, or null
    typeHandlers,             \* live registrations of the 'type' command
    calls,                    \* the setMode calls in flight
    delivered,                \* where the latest typed character went
    lookup                    \* the latest call of getFromKeymap and its value

vars == <<keyEventHandler, result, input, dispatched, mode,
          typeCommandSubscription, typeHandlers, calls, delivered, lookup>>

statusBarPrefix(h) == IF h.commandMode THEN <<":">> ELSE <<>>

updateStatus(h) ==
    [h EXCEPT !.keyStatusBar = statusBarPrefix(h) \o h.count \o h.keys]

setKeys(h, keys) == updateStatus([h EXCEPT !.keys = keys])

\* reset that refreshes the status bar before it empties count
reset_statusBeforeCount(h) ==
    [setKeys([h EXCEPT !.currentKeymap = h.keymap,
                       !.currentCommonKeymap = h.commonKeymap],
             <<>>)
     EXCEPT !.count = <<>>, !.parsingCount = TRUE]

\* reset() that forgets the count
reset_forgetsCount(h) ==
    setKeys([h EXCEPT !.currentKeymap = h.keymap,
                      !.currentCommonKeymap = h.commonKeymap,
                      !.parsingCount = TRUE],
            <<>>)

reset(h) ==
    setKeys([h EXCEPT !.currentKeymap = h.keymap,
                      !.currentCommonKeymap = h.commonKeymap,
                      !.count = <<>>,
                      !.parsingCount = TRUE],
            <<>>)

clear(h) == [h EXCEPT !.currentKeymap = h.keymap]

\* new KeyEventHandler(keyStatusBar, keymap, commonKeymap, commandMode)
KeyEventHandler(keymap, commonKeymap, commandMode) ==
    reset([keymap |-> keymap, commonKeymap |-> commonKeymap,
           commandMode |-> commandMode,
           currentKeymap |-> Undefined, currentCommonKeymap |-> Undefined,
           keys |-> <<>>, count |-> <<>>, parsingCount |-> FALSE,
           keyStatusBar |-> <<>>])

\* How a call of handle ends.  kind is "undefined" (returned nothing),
\* "result" (returned {command: value, keys}) or "KeyError" (threw a KeyError
\* whose message is value, a colon, and keys in quotes).
Nothing == [kind |-> "undefined", value |-> Undefined, keys |-> <<>>]
Result(command, keys) == [kind |-> "result", value |-> command, keys |-> keys]
KeyError(tag, keys) == [kind |-> "KeyError", value |-> tag, keys |-> keys]
\* No call of handle is the latest operation.
NoCall == [kind |-> "none", value |-> Undefined, keys |-> <<>>]

\* the command-mode lookup done with the wildcard fallback
handleCommandMode_wildcard(h, key) ==
    IF key # <<Newline>>
    THEN [handler |-> h, outcome |-> Nothing]
    ELSE LET keys == SubSeq(h.keys, 1, Len(h.keys) - 1)
             value == getFromKeymap(h.keymap, keys)
         IN  IF isCommand(value)
             THEN [handler |-> reset(h),
                   outcome |-> Result(value, keys)]
             ELSE [handler |-> reset(h),
                   outcome |-> KeyError("undefined command", keys)]

\* handle, command mode: h has parsingCount cleared and key appended to keys
handleCommandMode(h, key) ==
    IF key # <<Newline>>
    THEN [handler |-> h, outcome |-> Nothing]
    ELSE LET keys == SubSeq(h.keys, 1, Len(h.keys) - 1)
         IN  IF /\ h.keymap # Undefined
                /\ has(h.keymap, keys)
                /\ isCommand(Keymaps[h.keymap][keys])
             THEN [handler |-> reset(h),
                   outcome |-> Result(Keymaps[h.keymap][keys], keys)]
             ELSE [handler |-> reset(h),
                   outcome |-> KeyError("undefined command", keys)]

\* the descent that leaves the common cursor at its root while the mode path
\* descends
handleOtherModes_commonAtRoot(h, key) ==
    LET value == getFromKeymap(h.currentKeymap, key)
        common == getFromKeymap(h.currentCommonKeymap, key)
    IN  IF Truthy(value)
        THEN IF isCommand(value)
             THEN [handler |-> reset(h), outcome |-> Result(value, h.keys)]
             ELSE [handler |-> [h EXCEPT !.currentKeymap = value],
                   outcome |-> Nothing]
        ELSE IF Truthy(common)
             THEN IF isCommand(common)
                  THEN [handler |-> reset(h), outcome |-> Result(common, h.keys)]
                  ELSE [handler |-> [h EXCEPT !.currentKeymap = Undefined,
                                              !.currentCommonKeymap = common],
                        outcome |-> Nothing]
             ELSE [handler |-> reset(h),
                   outcome |-> KeyError("undefined key sequence", h.keys)]

\* the descent that asks the common keymap first
handleOtherModes_commonFirst(h, key) ==
    LET value == getFromKeymap(h.currentCommonKeymap, key)
        mine == getFromKeymap(h.currentKeymap, key)
    IN  IF Truthy(value)
        THEN IF isCommand(value)
             THEN [handler |-> reset(h), outcome |-> Result(value, h.keys)]
             ELSE [handler |->
                      [h EXCEPT !.currentCommonKeymap = value,
                                !.currentKeymap =
                                    IF Truthy(mine)
                                    THEN IF ~isCommand(mine) THEN mine ELSE @
                                    ELSE Undefined],
                   outcome |-> Nothing]
        ELSE IF Truthy(mine)
             THEN IF isCommand(mine)
                  THEN [handler |-> reset(h), outcome |-> Result(mine, h.keys)]
                  ELSE [handler |-> [h EXCEPT !.currentCommonKeymap = Undefined,
                                              !.currentKeymap = mine],
                        outcome |-> Nothing]
             ELSE [handler |-> reset(h),
                   outcome |-> KeyError("undefined key sequence", h.keys)]

\* the fallback that leaves the mode cursor where it was
handleOtherModes_keepsModeCursor(h, key) ==
    LET value == getFromKeymap(h.currentKeymap, key)
        common == getFromKeymap(h.currentCommonKeymap, key)
    IN  IF Truthy(value)
        THEN IF isCommand(value)
             THEN [handler |-> reset(h), outcome |-> Result(value, h.keys)]
             ELSE [handler |->
                      [h EXCEPT !.currentKeymap = value,
                                !.currentCommonKeymap =
                                    IF Truthy(common)
                                    THEN IF ~isCommand(common) THEN common ELSE @
                                    ELSE Undefined],
                   outcome |-> Nothing]
        ELSE IF Truthy(common)
             THEN IF isCommand(common)
                  THEN [handler |-> reset(h), outcome |-> Result(common, h.keys)]
                  ELSE [handler |-> [h EXCEPT !.currentCommonKeymap = common],
                        outcome |-> Nothing]
             ELSE [handler |-> reset(h),
                   outcome |-> KeyError("undefined key sequence", h.keys)]

\* the descent whose error carries the failing key alone
handleOtherModes_errorKeyOnly(h, key) ==
    LET value == getFromKeymap(h.currentKeymap, key)
        common == getFromKeymap(h.currentCommonKeymap, key)
    IN  IF Truthy(value)
        THEN IF isCommand(value)
             THEN [handler |-> reset(h), outcome |-> Result(value, h.keys)]
             ELSE [handler |->
                      [h EXCEPT !.currentKeymap = value,
                                !.currentCommonKeymap =
                                    IF Truthy(common)
                                    THEN IF ~isCommand(common) THEN common ELSE @
                                    ELSE Undefined],
                   outcome |-> Nothing]
        ELSE IF Truthy(common)
             THEN IF isCommand(common)
                  THEN [handler |-> reset(h), outcome |-> Result(common, h.keys)]
                  ELSE [handler |-> [h EXCEPT !.currentKeymap = Undefined,
                                              !.currentCommonKeymap = common],
                        outcome |-> Nothing]
             ELSE [handler |-> reset(h),
                   outcome |-> KeyError("undefined key sequence", key)]

\* handle, other modes: h has parsingCount cleared and key appended to keys
handleOtherModes(h, key) ==
    LET value == getFromKeymap(h.currentKeymap, key)
        common == getFromKeymap(h.currentCommonKeymap, key)
    IN  IF Truthy(value)
        THEN IF isCommand(value)
             THEN [handler |-> reset(h), outcome |-> Result(value, h.keys)]
             ELSE [handler |->
                      [h EXCEPT !.currentKeymap = value,
                                !.currentCommonKeymap =
                                    IF Truthy(common)
                                    THEN IF ~isCommand(common) THEN common ELSE @
                                    ELSE Undefined],
                   outcome |-> Nothing]
        ELSE IF Truthy(common)
             THEN IF isCommand(common)
                  THEN [handler |-> reset(h), outcome |-> Result(common, h.keys)]
                  ELSE [handler |-> [h EXCEPT !.currentKeymap = Undefined,
                                              !.currentCommonKeymap = common],
                        outcome |-> Nothing]
             ELSE [handler |-> reset(h),
                   outcome |-> KeyError("undefined key sequence", h.keys)]

\* handle whose count branch ends the parsing of the count
handle_countEndsParsing(h, key) ==
    IF h.parsingCount /\ ~h.commandMode /\ isNum(key, Len(h.count) = 0)
    THEN [handler |-> updateStatus([h EXCEPT !.count = @ \o key,
                                             !.parsingCount = FALSE]),
          outcome |-> Nothing]
    ELSE LET h1 == setKeys([h EXCEPT !.parsingCount = FALSE], h.keys \o key)
         IN  IF h.commandMode
             THEN handleCommandMode(h1, key)
             ELSE handleOtherModes(h1, key)

\* handle that parses a count in command mode too
handle_countInCommandMode(h, key) ==
    IF h.parsingCount /\ isNum(key, Len(h.count) = 0)
    THEN [handler |-> updateStatus([h EXCEPT !.count = @ \o key]),
          outcome |-> Nothing]
    ELSE LET h1 == setKeys([h EXCEPT !.parsingCount = FALSE], h.keys \o key)
         IN  IF h.commandMode
             THEN handleCommandMode(h1, key)
             ELSE handleOtherModes(h1, key)

\* handle that goes on parsing the count after a sequence key
handle_keepsParsingCount(h, key) ==
    IF h.parsingCount /\ ~h.commandMode /\ isNum(key, Len(h.count) = 0)
    THEN [handler |-> updateStatus([h EXCEPT !.count = @ \o key]),
          outcome |-> Nothing]
    ELSE LET h1 == setKeys(h, h.keys \o key)
         IN  IF h.commandMode
             THEN handleCommandMode(h1, key)
             ELSE handleOtherModes(h1, key)

\* KeyEventHandler.handle(key): the handler after the call and how it ended
handle(h, key) ==
    IF h.parsingCount /\ ~h.commandMode /\ isNum(key, Len(h.count) = 0)
    THEN [handler |-> updateStatus([h EXCEPT !.count = @ \o key]),
          outcome |-> Nothing]
    ELSE LET h1 == setKeys([h EXCEPT !.parsingCount = FALSE], h.keys \o key)
         IN  IF h.commandMode
             THEN handleCommandMode(h1, key)
             ELSE handleOtherModes(h1, key)

\* -------------------------------------------------------------- AppState

NORMAL == "normal"
INSERT == "insert"
SELECT == "select"
COMMAND == "command"
Modes == {NORMAL, INSERT, SELECT, COMMAND}

\* config.keybindings: the keymap of each mode, and the common keymap
Keybindings == NORMAL :> "N" @@ INSERT :> "Sa" @@ SELECT :> "D" @@ COMMAND :> "X"
CommonKeymap == "DC"

RECURSIVE ParseInt(_)
ParseInt(digits) ==
    IF digits = <<>> THEN 0
    ELSE 10 * ParseInt(SubSeq(digits, 1, Len(digits) - 1))
         + DigitValue(digits[Len(digits)])

\* The count handed to a dispatched command: the handler's count parsed as
\* an integer, 1 when it is empty.
CountValue(count) == IF count = <<>> THEN 1 ELSE ParseInt(count)

NoDispatch == [command |-> Undefined, keys |-> <<>>, count |-> 0]

\* The handler that serves a mode.
HandlerFor(m) == KeyEventHandler(Keybindings[m], CommonKeymap, m = COMMAND)

\* The keys handed to handle, call after call, in the sequence in progress: a
\* call that returned a command or threw ended its sequence, and input is
\* emptied by every other operation on the handler.
Sequence == IF result.kind \in {"result", "KeyError"} THEN <<>> ELSE input

\* AppState.handleKey(key): hand the key to the handler; dispatch a resolved
\* command with the count read from the handler; a KeyError is caught and
\* shown as a message.
handleKey(key) ==
    LET r == handle(keyEventHandler, key)
    IN  /\ keyEventHandler' = r.handler
        /\ result' = r.outcome
        /\ input' = Sequence \o key
        /\ dispatched' = IF r.outcome.kind = "result"
                         THEN [command |-> r.outcome.value,
                               keys |-> r.outcome.keys,
                               count |-> CountValue(r.handler.count)]
                         ELSE NoDispatch

\* The buffers stay within the model's bounds after handle(key).
WithinBounds(h, key) ==
    IF h.parsingCount /\ ~h.commandMode /\ isNum(key, Len(h.count) = 0)
    THEN Len(h.count) < MaxCount
    ELSE Len(h.keys) < MaxKeys

appVars == <<mode, typeCommandSubscription, typeHandlers, calls, delivered>>

NoLookup == [keymap |-> Undefined, key |-> <<>>, value |-> Undefined]

NoCalls == [i \in 1..MaxCalls |-> [pc |-> "idle", mode |-> NORMAL]]

\* ---------------------------------------------- a handler driven by keys

Init ==
    /\ \E pair \in KeymapPairs, commandMode \in BOOLEAN :
          /\ keyEventHandler = KeyEventHandler(pair[1], pair[2], commandMode)
          /\ mode = IF commandMode THEN COMMAND ELSE NORMAL
    /\ result = NoCall
    /\ input = <<>>
    /\ dispatched = NoDispatch
    /\ typeCommandSubscription = TRUE
    /\ typeHandlers = 1
    /\ calls = NoCalls
    /\ delivered = "none"
    /\ lookup = NoLookup

HandleKey(key) ==
    /\ WithinBounds(keyEventHandler, key)
    /\ handleKey(key)
    /\ UNCHANGED <<appVars, lookup>>

Next == \E key \in KeyTexts : HandleKey(key)

Spec == Init /\ [][Next]_vars

\* ------------------------- a handler driven by keys and by its other methods

\* The strings the setKeys command sets: the expression it evaluates sees the
\* present keys, as in keys.slice(0, -1).
SetKeysInputs ==
    {<<>>, <<"w">>,
     SubSeq(keyEventHandler.keys, 1, Len(keyEventHandler.keys) - 1)}

SetKeys(keys) ==
    /\ keyEventHandler' = setKeys(keyEventHandler, keys)
    /\ result' = NoCall
    /\ input' = <<>>
    /\ UNCHANGED <<dispatched, appVars, lookup>>

Reset ==
    /\ keyEventHandler' = reset(keyEventHandler)
    /\ result' = NoCall
    /\ input' = <<>>
    /\ UNCHANGED <<dispatched, appVars, lookup>>

Clear ==
    /\ keyEventHandler' = clear(keyEventHandler)
    /\ result' = NoCall
    /\ input' = <<>>
    /\ UNCHANGED <<dispatched, appVars, lookup>>

\* The characters typed while the other methods are called.
ExtKeyTexts == {<<"1">>, <<"a">>, <<"x">>, <<"w">>, <<Newline>>}

ExtNext ==
    \/ \E key \in ExtKeyTexts : HandleKey(key)
    \/ \E keys \in SetKeysInputs : SetKeys(keys)
    \/ Reset
    \/ Clear

ExtSpec == Init /\ [][ExtNext]_vars

\* ------------------------------------ mode switches and 'type' events

\* The characters typed while modes are switched.
AppKeyTexts == {<<"a">>, <<"c">>, <<"1">>, <<Newline>>}

AppInit ==
    /\ mode = NORMAL
    /\ keyEventHandler = HandlerFor(NORMAL)
    /\ result = NoCall
    /\ input = <<>>
    /\ dispatched = NoDispatch
    /\ typeCommandSubscription = FALSE
    /\ typeHandlers = 0
    /\ calls = NoCalls
    /\ delivered = "none"
    /\ lookup = NoLookup

\* setMode(m) is called and runs to its first await (cancelSelection).
CallSetMode(i, m) ==
    /\ calls[i].pc = "idle"
    /\ calls' = [calls EXCEPT ![i] = [pc |-> "cancelSelection", mode |-> m]]
    /\ delivered' = "none"
    /\ UNCHANGED <<lookup, keyEventHandler, result, input, dispatched, mode,
                   typeCommandSubscription, typeHandlers>>

\* AppState.setMode(m): the mode becomes m and a new handler serves it.
appStateSetMode(m) ==
    /\ mode' = m
    /\ keyEventHandler' = HandlerFor(m)
    /\ result' = NoCall
    /\ input' = <<>>

\* cancelSelection resolves: appState.setMode(mode), then setContext is awaited.
CancelSelectionDone(i) ==
    /\ calls[i].pc = "cancelSelection"
    /\ appStateSetMode(calls[i].mode)
    /\ calls' = [calls EXCEPT ![i].pc = "setContext"]
    /\ delivered' = "none"
    /\ UNCHANGED <<lookup, dispatched, typeCommandSubscription, typeHandlers>>

\* setContext resolves, and the subscription is registered without a look at
\* the one that is held
SetContextDone_registersAgain(i) ==
    /\ calls[i].pc = "setContext"
    /\ IF calls[i].mode = INSERT
       THEN IF typeCommandSubscription
            THEN /\ typeHandlers' = typeHandlers - 1
                 /\ typeCommandSubscription' = FALSE
            ELSE UNCHANGED <<typeHandlers, typeCommandSubscription>>
       ELSE /\ typeHandlers' = typeHandlers + 1
            /\ typeCommandSubscription' = TRUE
    /\ calls' = [calls EXCEPT ![i].pc = "idle"]
    /\ delivered' = "none"
    /\ UNCHANGED <<lookup, keyEventHandler, result, input, dispatched, mode>>

\* setContext resolves: the 'type' subscription is disposed or registered.
SetContextDone(i) ==
    /\ calls[i].pc = "setContext"
    /\ IF calls[i].mode = INSERT
       THEN IF typeCommandSubscription
            THEN /\ typeHandlers' = typeHandlers - 1
                 /\ typeCommandSubscription' = FALSE
            ELSE UNCHANGED <<typeHandlers, typeCommandSubscription>>
       ELSE IF ~typeCommandSubscription
            THEN /\ typeHandlers' = typeHandlers + 1
                 /\ typeCommandSubscription' = TRUE
            ELSE UNCHANGED <<typeHandlers, typeCommandSubscription>>
    /\ calls' = [calls EXCEPT ![i].pc = "idle"]
    /\ delivered' = "none"
    /\ UNCHANGED <<lookup, keyEventHandler, result, input, dispatched, mode>>

\* onConfigUpdate(): the configuration is read again, the handler is rebuilt
\* on it, and setMode(NORMAL) is called without being awaited.
OnConfigUpdate(i) ==
    /\ calls[i].pc = "idle"
    /\ keyEventHandler' = HandlerFor(mode)
    /\ result' = NoCall
    /\ input' = <<>>
    /\ calls' = [calls EXCEPT ![i] = [pc |-> "cancelSelection", mode |-> NORMAL]]
    /\ delivered' = "none"
    /\ UNCHANGED <<lookup, dispatched, mode, typeCommandSubscription, typeHandlers>>

\* A character is typed: the 'type' command runs onType when it is registered,
\* and the editor's own typing otherwise.
TypeEvent(key) ==
    IF typeHandlers > 0
    THEN /\ WithinBounds(keyEventHandler, key)
         /\ handleKey(key)
         /\ delivered' = "onType"
         /\ UNCHANGED <<mode, typeCommandSubscription, typeHandlers, calls, lookup>>
    ELSE /\ delivered' = "default"
         /\ UNCHANGED <<keyEventHandler, result, input, dispatched, mode,
                        typeCommandSubscription, typeHandlers, calls, lookup>>

AppNext ==
    \/ \E i \in 1..MaxCalls, m \in Modes : CallSetMode(i, m)
    \/ \E i \in 1..MaxCalls : CancelSelectionDone(i)
    \/ \E i \in 1..MaxCalls : SetContextDone(i)
    \/ \E i \in 1..MaxCalls : OnConfigUpdate(i)
    \/ \E key \in AppKeyTexts : TypeEvent(key)

AppSpec == AppInit /\ [][AppNext]_vars

\* The same with one setMode call at a time: a call starts only when the
\* call before it has finished.
SerialNext ==
    \/ \E m \in Modes : CallSetMode(1, m)
    \/ CancelSelectionDone(1)
    \/ SetContextDone(1)
    \/ OnConfigUpdate(1)
    \/ \E key \in AppKeyTexts : TypeEvent(key)

SerialSpec == AppInit /\ [][SerialNext]_vars

\* ------------------------------------------------- the lookup on its own

\* The property names looked up: the typed characters, the wildcard, a line.
LookupKeys == KeyTexts \cup {<<>>, <<"w", "q">>}

LookupInit ==
    /\ keyEventHandler = HandlerFor(NORMAL)
    /\ mode = NORMAL
    /\ result = NoCall
    /\ input = <<>>
    /\ dispatched = NoDispatch
    /\ typeCommandSubscription = FALSE
    /\ typeHandlers = 0
    /\ calls = NoCalls
    /\ delivered = "none"
    /\ lookup \in [keymap : {Undefined}, key : LookupKeys, value : {Undefined}]

\* getFromKeymap(keymap, key) is called; it assigns nothing.
Lookup(keymap, key) ==
    /\ lookup' = [keymap |-> keymap, key |-> key,
                  value |-> getFromKeymap(keymap, key)]
    /\ UNCHANGED <<keyEventHandler, result, input, dispatched, appVars>>

LookupNext ==
    \E keymap \in KeymapRefs \cup {Undefined}, key \in LookupKeys :
        Lookup(keymap, key)

LookupSpec == LookupInit /\ [][LookupNext]_vars

\* ------------------------------------------------------------ properties

Terminal == result.kind \in {"result", "KeyError"}

\* The handler is idle: as reset() leaves it.
Idle(h) ==
    /\ h.currentKeymap = h.keymap
    /\ h.currentCommonKeymap = h.commonKeymap
    /\ h.keys = <<>>
    /\ h.count = <<>>
    /\ h.parsingCount = TRUE

\* The count prefix of a typed sequence: its leading digits, when the first
\* of them is not 0.
CountLen(seq) ==
    IF seq = <<>> \/ seq[1] \notin Digits \ {"0"}
    THEN 0
    ELSE CHOOSE n \in 1..Len(seq) :
            /\ \A i \in 1..n : seq[i] \in Digits
            /\ n = Len(seq) \/ seq[n + 1] \notin Digits
CountOf(seq) == SubSeq(seq, 1, CountLen(seq))
StripCount(seq) == SubSeq(seq, CountLen(seq) + 1, Len(seq))

\* The binding reached from a root keymap along a sequence of keys, each key
\* looked up in the sub-keymap the keys before it lead to.
RECURSIVE Walk(_, _)
Walk(root, seq) ==
    IF seq = <<>> THEN root
    ELSE LET at == Walk(root, SubSeq(seq, 1, Len(seq) - 1))
         IN  IF at \in KeymapRefs
             THEN getFromKeymap(at, <<seq[Len(seq)]>>)
             ELSE Undefined

\* C1 (reset invariant): whenever the latest call of handle returned a
\* resolved command or threw a KeyError, in command mode or not and whatever
\* was typed or set before, currentKeymap and currentCommonKeymap are the root
\* keymaps the handler was constructed with, keys and count are empty and
\* parsingCount is true.
C1_ResetInvariant == Terminal => Idle(keyEventHandler)

\* A sequence with a count and a pending key ended in a failure.
C1_Witness ==
    /\ result.kind = "KeyError"
    /\ input = <<"1", "a", "x">>
    /\ keyEventHandler.keymap = "D"

\* C2 (insert-mode bypass): while the application mode is insert, handle is
\* not called: whatever the interleaving of typed characters with the steps of
\* setMode, no typed character goes through onType to the handler once the
\* mode has become insert and until it leaves insert.
C2_InsertBypass == ~(mode = INSERT /\ delivered = "onType")

NoneInFlight == \A i \in 1..MaxCalls : calls[i].pc = "idle"

\* C3 (mode-switch contract): whatever the setMode calls and their
\* interleaving, the one of onConfigUpdate included, when the last call in
\* flight finishes the 'type' subscription is registered if and only if the
\* application mode is not insert.
C3_ModeSwitchContract ==
    [][(~NoneInFlight /\ NoneInFlight')
       => ((typeCommandSubscription' /\ typeHandlers' = 1) <=> mode' # INSERT)]_vars

\* C4 (common-keymap fallback divergence): not in command mode, when the keys
\* typed so far lead to a sub-keymap in the mode keymap and to a sub-keymap in
\* the common keymap, a next key whose lookup in the mode sub-keymap is a
\* command resolves to that command, and a next key that only the common
\* sub-keymap binds, to a command, resolves to the common command; the keys
\* returned are the whole sequence.  With {a: {b: cmd1}} and {a: {c: cmd2}}:
\* a is pending, a c returns cmd2 with keys "ac", a b returns cmd1 with "ab".
C4_FallbackDivergence ==
    LET h == keyEventHandler
        typed == StripCount(input)
        prefix == SubSeq(typed, 1, Len(typed) - 1)
        key == <<typed[Len(typed)]>>
        sub == Walk(h.keymap, prefix)
        commonSub == Walk(h.commonKeymap, prefix)
    IN  /\ (/\ ~h.commandMode
            /\ Len(typed) >= 2
            /\ sub \in KeymapRefs
            /\ commonSub \in KeymapRefs)
           => /\ isCommand(getFromKeymap(sub, key))
                 => result = Result(getFromKeymap(sub, key), typed)
              /\ (/\ getFromKeymap(sub, key) = Undefined
                  /\ isCommand(getFromKeymap(commonSub, key)))
                 => result = Result(getFromKeymap(commonSub, key), typed)
        /\ (~h.commandMode /\ h.keymap = "D" /\ h.commonKeymap = "DC")
           => /\ input = <<"a">>
                 => result = Nothing /\ h.keys = <<"a">> /\ ~Idle(h)
              /\ input = <<"a", "c">> => result = Result("cmd2", <<"a", "c">>)
              /\ input = <<"a", "b">> => result = Result("cmd1", <<"a", "b">>)

\* a then c resolved to the common keymap's cmd2.
C4_Witness ==
    /\ keyEventHandler.keymap = "D"
    /\ keyEventHandler.commonKeymap = "DC"
    /\ input = <<"a", "c">>
    /\ result = Result("cmd2", <<"a", "c">>)

\* C5 (count parsing): not in command mode, from the idle state, digits typed
\* with the first of them 1-9 are accumulated into count: nothing is returned
\* and keys stays empty; a key typed after them that the root keymaps bind to a
\* command resolves to that command and the keys returned hold that key alone
\* ("12j": count is "12" when j is handled, the result's keys are "j").  A 0
\* typed first is not added to count: it is appended to keys and looked up in
\* the keymaps as a sequence key.
C5_CountParsing ==
    LET h == keyEventHandler
        digits == CountOf(input)
        typed == StripCount(input)
        bound == getFromKeymap(h.keymap, typed)
        commonBound == getFromKeymap(h.commonKeymap, typed)
    IN  ~h.commandMode =>
        /\ (input # <<>> /\ typed = <<>>)
           => /\ result = Nothing
              /\ h.count = input
              /\ h.keys = <<>>
              /\ dispatched = NoDispatch
        /\ (digits # <<>> /\ Len(typed) = 1)
           => /\ isCommand(bound) => result = Result(bound, typed)
              /\ (bound = Undefined /\ isCommand(commonBound))
                 => result = Result(commonBound, typed)
        /\ (input # <<>> /\ input[1] = "0")
           => /\ digits = <<>>
              /\ h.count = <<>>
              /\ result.kind = "undefined" => h.keys = input
              /\ input = <<"0">>
                 => /\ isCommand(bound) => result = Result(bound, <<"0">>)
                    /\ bound \in KeymapRefs
                       => result = Nothing /\ h.currentKeymap = bound
                    /\ (bound = Undefined /\ commonBound = Undefined)
                       => result = KeyError("undefined key sequence", <<"0">>)

\* 1, 2, j resolved to j's command with keys "j".
C5_Witness ==
    /\ keyEventHandler.keymap = "N"
    /\ input = <<"1", "2", "j">>
    /\ result = Result("cursorDown", <<"j">>)

\* C6 (count substitution at dispatch): when handle returns a resolved command
\* for a sequence typed after the count digits d, the count the dispatch reads
\* once handle has returned is d parsed as an integer, and 1 when no digit was
\* typed: after 1, 2, j the dispatched count is 12.
C6_CountAtDispatch ==
    (~keyEventHandler.commandMode /\ result.kind = "result")
    => /\ dispatched.command = result.value
       /\ dispatched.count = CountValue(CountOf(input))

\* C7 (command-mode line resolution): in command mode, when a newline is
\* handled, the line typed since the last reset, without the newline, is looked
\* up as one property name of the mode's root keymap, with no descent, no
\* wildcard and no common keymap; bound to a command, handle returns that
\* command with keys the line and resets; absent or bound to a sub-keymap,
\* handle resets and throws "undefined command".  With {wq: saveAndClose}: w,
\* q, newline resolves to saveAndClose; w, x, newline fails.
C7_CommandLine ==
    LET h == keyEventHandler
        line == SubSeq(input, 1, Len(input) - 1)
    IN  (h.commandMode /\ input # <<>> /\ input[Len(input)] = Newline)
        => /\ Idle(h)
           /\ IF /\ h.keymap # Undefined
                 /\ line \in DOMAIN Keymaps[h.keymap]
                 /\ Keymaps[h.keymap][line] \in Commands
              THEN result = Result(Keymaps[h.keymap][line], line)
              ELSE result = KeyError("undefined command", line)
           /\ h.keymap = "X"
              => /\ line = <<"w", "q">>
                    => result = Result("saveAndClose", <<"w", "q">>)
                 /\ line = <<"w", "x">>
                    => result = KeyError("undefined command", <<"w", "x">>)
                 /\ line = <<"w">>
                    => result = KeyError("undefined command", <<"w">>)

\* w, x, newline failed although the keymap has a wildcard and the common
\* keymap binds wx.
C7_Witness ==
    /\ keyEventHandler.commandMode
    /\ keyEventHandler.keymap = "X"
    /\ input = <<"w", "x", Newline>>
    /\ result.kind = "KeyError"

\* C8 as stated (recursive multi-stage resolution): not in command mode, for
\* every path k1..kn of the mode keymap from its root to a command, typed from
\* the idle state, each of k1..k(n-1) returns nothing and leaves the handler
\* pending with keys k1..ki, and kn returns the command with keys k1..kn and
\* resets.
C8_EveryPathResolves ==
    LET h == keyEventHandler
        at == Walk(h.keymap, input)
    IN  (~h.commandMode /\ input # <<>> /\ h.keymap # Undefined)
        => /\ isCommand(at) => result = Result(at, input) /\ Idle(h)
           /\ at \in KeymapRefs
              => /\ result = Nothing
                 /\ h.keys = input
                 /\ h.currentKeymap = at

\* C8 as amended: the same for every path whose first key k1 is not a digit
\* 1-9 (typed first, such a digit is taken as count and not looked up).
\* With {g: {g: cursorTop}} the first g is pending and the second g resolves
\* to cursorTop.
C8_RecursiveResolution ==
    LET h == keyEventHandler
        at == Walk(h.keymap, input)
    IN  /\ (/\ ~h.commandMode
            /\ input # <<>>
            /\ h.keymap # Undefined
            /\ input[1] \notin Digits \ {"0"})
           => /\ isCommand(at) => result = Result(at, input) /\ Idle(h)
              /\ at \in KeymapRefs
                 => /\ result = Nothing
                    /\ h.keys = input
                    /\ h.currentKeymap = at
        /\ (~h.commandMode /\ h.keymap = "N")
           => /\ input = <<"g">> => result = Nothing /\ ~Idle(h)
              /\ input = <<"g", "g">>
                 => result = Result("cursorTop", <<"g", "g">>) /\ Idle(h)

\* g then g resolved to cursorTop.
C8_Witness ==
    /\ keyEventHandler.keymap = "N"
    /\ input = <<"g", "g">>
    /\ result = Result("cursorTop", <<"g", "g">>)

\* C9 (wildcard precedence): getFromKeymap(keymap, key) is the binding of key
\* when keymap has key, also when it has the wildcard "" as well; the binding
\* of the wildcard when it has the wildcard and not key; undefined when it has
\* neither or keymap is undefined.  It assigns nothing.
C9_WildcardPrecedence ==
    LET keymap == lookup.keymap
        key == lookup.key
    IN  /\ keymap = Undefined => lookup.value = Undefined
        /\ keymap # Undefined
           => /\ key \in DOMAIN Keymaps[keymap]
                 => lookup.value = Keymaps[keymap][key]
              /\ (key \notin DOMAIN Keymaps[keymap]
                  /\ <<>> \in DOMAIN Keymaps[keymap])
                 => lookup.value = Keymaps[keymap][<<>>]
              /\ (key \notin DOMAIN Keymaps[keymap]
                  /\ <<>> \notin DOMAIN Keymaps[keymap])
                 => lookup.value = Undefined
        /\ keyEventHandler = HandlerFor(NORMAL)

\* a was looked up in a keymap that binds a and the wildcard.
C9_Witness ==
    /\ lookup.keymap = "Wb"
    /\ lookup.key = <<"a">>
    /\ lookup.value = "cmdBa"

\* C10 (failures are local to one sequence): a failing handle throws
\* "undefined key sequence" with every key of the sequence that is not a count
\* digit, the failing key included, when not in command mode, and "undefined
\* command" with the line without its newline in command mode; when the error
\* surfaces the handler is in the state of a handler newly constructed on the
\* same keymaps, so the keys handled after it are handled as by a new handler.
C10_FailuresLocal ==
    LET h == keyEventHandler
    IN  result.kind = "KeyError"
        => /\ ~h.commandMode
              => result = KeyError("undefined key sequence", StripCount(input))
           /\ h.commandMode
              => /\ input[Len(input)] = Newline
                 /\ result = KeyError("undefined command",
                                      SubSeq(input, 1, Len(input) - 1))
           /\ h = KeyEventHandler(h.keymap, h.commonKeymap, h.commandMode)

\* After the count 1 and the pending a, x failed.
C10_Witness ==
    /\ keyEventHandler.keymap = "D"
    /\ ~keyEventHandler.commandMode
    /\ input = <<"1", "a", "x">>
    /\ result = KeyError("undefined key sequence", <<"a", "x">>)

\* ------------------------------------------------- steps of handle

\* The key handed to handle in the step: the last one of the sequence typed.
Key == <<input'[Len(input')]>>

\* The step of handle is one that appended Key to keys and left the sequence
\* pending.
PendingStep ==
    /\ result' = Nothing
    /\ keyEventHandler'.keys = keyEventHandler.keys \o Key

\* C12 (common cursor synchronisation): not in command mode, after a step of
\* handle whose lookup of the key in currentKeymap yields a sub-keymap,
\* currentCommonKeymap is the sub-keymap that the lookup of the same key in the
\* previous currentCommonKeymap yields when it yields one, and is undefined in
\* every other case, the one where that lookup yields a command included: it
\* never stays on the previous level.
C12_CommonCursorSync ==
    [][LET h == keyEventHandler
           value == getFromKeymap(h.currentKeymap, Key)
           common == getFromKeymap(h.currentCommonKeymap, Key)
       IN  (~h.commandMode /\ PendingStep /\ value \in KeymapRefs)
           => keyEventHandler'.currentCommonKeymap =
                  IF common \in KeymapRefs THEN common ELSE Undefined]_vars

\* The step of handle is one that took Key as a key of the sequence, not as
\* a digit of the count.
SequenceStep == keyEventHandler'.count # keyEventHandler.count \o Key

\* C13 (mode-specific precedence): not in command mode, when the lookup of the
\* handled key in currentKeymap, exact or by the wildcard, yields a binding,
\* that binding alone decides the step: a command is returned with the whole
\* sequence as keys even if the common keymap binds the key, and a sub-keymap
\* leaves the sequence pending on it even if the common keymap binds the key to
\* a command.  The common keymap decides only when the mode lookup finds
\* nothing: its command is returned, its sub-keymap leaves the sequence
\* pending, and with no binding there either the call fails.
C13_ModePrecedence ==
    [][LET h == keyEventHandler
           value == getFromKeymap(h.currentKeymap, Key)
           common == getFromKeymap(h.currentCommonKeymap, Key)
       IN  (~h.commandMode /\ SequenceStep) =>
           /\ isCommand(value) => result' = Result(value, h.keys \o Key)
           /\ value \in KeymapRefs
              => /\ result' = Nothing
                 /\ keyEventHandler'.currentKeymap = value
           /\ value = Undefined
              => /\ isCommand(common) => result' = Result(common, h.keys \o Key)
                 /\ common \in KeymapRefs
                    => /\ result' = Nothing
                       /\ keyEventHandler'.currentCommonKeymap = common
                 /\ common = Undefined => result'.kind = "KeyError"]_vars

\* With {a: {}} and common {a: cmd3, ...}, a left the sequence pending on the
\* mode's sub-keymap although the common keymap binds a to a command.
C13_Witness ==
    /\ keyEventHandler.keymap = "S"
    /\ ~keyEventHandler.commandMode
    /\ isCommand(getFromKeymap(keyEventHandler.commonKeymap, <<"a">>))
    /\ input = <<"a">>
    /\ result = Nothing
    /\ keyEventHandler.currentKeymap = "Sa"

\* count is empty or a string of digits that does not start with 0
CountWellFormed(count) ==
    \/ count = <<>>
    \/ /\ \A i \in 1..Len(count) : count[i] \in Digits
       /\ count[1] # "0"

\* C14 (count accumulation frame): a call of handle that takes the count
\* branch (parsingCount true, not command mode, the key a digit 1-9 when count
\* is empty and a digit 0-9 otherwise) appends the key to count, returns
\* nothing and leaves keys, currentKeymap, currentCommonKeymap and
\* parsingCount as they were; and count is at all times empty or a string of
\* digits without a leading zero.
C14_CountFrame ==
    /\ [](CountWellFormed(keyEventHandler.count))
    /\ [][LET h == keyEventHandler
              h2 == keyEventHandler'
          IN  (/\ h.parsingCount
               /\ ~h.commandMode
               /\ Key[1] \in (IF h.count = <<>> THEN Digits \ {"0"} ELSE Digits))
              => /\ h2.count = h.count \o Key
                 /\ result' = Nothing
                 /\ h2.keys = h.keys
                 /\ h2.currentKeymap = h.currentKeymap
                 /\ h2.currentCommonKeymap = h.currentCommonKeymap
                 /\ h2.parsingCount = h.parsingCount]_vars

\* 1 then 0 were both taken as count digits.
C14_Witness ==
    /\ ~keyEventHandler.commandMode
    /\ input = <<"1", "0">>
    /\ keyEventHandler.count = <<"1", "0">>
    /\ keyEventHandler.keys = <<>>
    /\ keyEventHandler.parsingCount
    /\ result = Nothing

\* C15 (count parsing ends for the sequence): once handle has processed a key
\* that it did not take as a count digit and the sequence is pending,
\* parsingCount is false, and it stays false until the reset that ends the
\* sequence: each later key, a digit included, is appended to keys and looked
\* up as a key of the sequence, and count does not change.  With
\* {g: {2: cmd}}, g then 2 resolves to cmd with keys "g2" and no count.
C15_CountParsingEnds ==
    /\ [](keyEventHandler.keys # <<>> => ~keyEventHandler.parsingCount)
    /\ []((keyEventHandler.keymap = "N" /\ ~keyEventHandler.commandMode
           /\ input = <<"g", "2">>)
          => (result = Result("cmd", <<"g", "2">>)
              /\ keyEventHandler.count = <<>>))
    /\ [][LET h == keyEventHandler
              h2 == keyEventHandler'
          IN  ~h.parsingCount =>
              /\ result' = Nothing
                 => /\ ~h2.parsingCount
                    /\ h2.keys = h.keys \o Key
                    /\ h2.count = h.count
              /\ (result'.kind = "result" /\ ~h.commandMode)
                 => result'.keys = h.keys \o Key
              /\ result'.kind \in {"result", "KeyError"} => Idle(h2)]_vars

\* After g, the digit 2 was looked up in g's sub-keymap and resolved.
C15_Witness ==
    /\ keyEventHandler.keymap = "N"
    /\ ~keyEventHandler.commandMode
    /\ input = <<"g", "2">>
    /\ result.value = "cmd"
    /\ keyEventHandler.count = <<>>
    /\ keyEventHandler.parsingCount

\* C16 (command-mode keys are inert until the newline): in command mode a
\* call of handle with a key other than the newline returns nothing, does not
\* throw, appends the key to keys and leaves currentKeymap,
\* currentCommonKeymap and count as they were; a digit is not taken as a
\* count, so count is empty in every state of a command-mode handler.
C16_CommandKeysInert ==
    /\ [](keyEventHandler.commandMode => keyEventHandler.count = <<>>)
    /\ [][LET h == keyEventHandler
              h2 == keyEventHandler'
          IN  (h.commandMode /\ Key # <<Newline>>)
              => /\ result' = Nothing
                 /\ h2.keys = h.keys \o Key
                 /\ h2.currentKeymap = h.currentKeymap
                 /\ h2.currentCommonKeymap = h.currentCommonKeymap
                 /\ h2.count = h.count]_vars

\* A digit and a letter typed on the command line are both in keys.
C16_Witness ==
    /\ keyEventHandler.commandMode
    /\ input = <<"1", "w">>
    /\ keyEventHandler.keys = <<"1", "w">>
    /\ keyEventHandler.count = <<>>
    /\ keyEventHandler.currentKeymap = keyEventHandler.keymap
    /\ result = Nothing

\* C17 (status display): after each completed operation on the handler (its
\* construction, a call of handle that returns or throws, reset, setKeys) the
\* text of the status bar is the prefix, ":" in command mode and empty
\* otherwise, followed by count, followed by keys.
C17_StatusDisplay ==
    LET h == keyEventHandler
    IN  h.keyStatusBar =
            (IF h.commandMode THEN <<":">> ELSE <<>>) \o h.count \o h.keys

\* A count digit and a pending key are both shown.
C17_Witness ==
    /\ ~keyEventHandler.commandMode
    /\ keyEventHandler.count = <<"1">>
    /\ keyEventHandler.keys = <<"a">>
    /\ keyEventHandler.keyStatusBar = <<"1", "a">>
    /\ result = Nothing

SetMax(S) == CHOOSE n \in S : \A m \in S : m <= n

\* The depth of a keymap tree: the number of nested keymap objects on its
\* longest path, hence the most lookups a walk down the tree can make; an
\* absent keymap has depth 0.
RECURSIVE Depth(_)
Depth(keymap) ==
    IF keymap = Undefined THEN 0
    ELSE LET bindings == Keymaps[keymap]
             subs == {bindings[k] : k \in DOMAIN bindings} \cap KeymapRefs
         IN  1 + SetMax({0} \cup {Depth(sub) : sub \in subs})

\* C18 (bounded sequence length): not in command mode, the number of keys of
\* one sequence, count digits excluded, is at no time more than the depth of
\* the deeper of the mode keymap and the common keymap (and one key where
\* there is no keymap at all: the key that fails), whether the sequence is
\* pending or has just resolved or failed.
C18_BoundedSequence ==
    LET h == keyEventHandler
        bound == SetMax({1, Depth(h.keymap), Depth(h.commonKeymap)})
    IN  ~h.commandMode =>
        /\ Len(h.keys) <= bound
        /\ Terminal => Len(result.keys) <= bound

\* C19 (the mode cursor tracks the typed keys): not in command mode and with
\* handle the only operation called, whenever currentKeymap is defined it is
\* the node reached from the mode's root keymap by looking up the characters
\* of keys one after the other with getFromKeymap, hence the root if and only
\* if keys is empty; and whenever keys is not empty at least one of
\* currentKeymap and currentCommonKeymap is defined.
C19_ModeCursorTracksKeys ==
    LET h == keyEventHandler
    IN  ~h.commandMode =>
        /\ h.currentKeymap # Undefined
           => /\ h.currentKeymap = Walk(h.keymap, h.keys)
              /\ h.currentKeymap = h.keymap <=> h.keys = <<>>
        /\ h.keys # <<>>
           => (h.currentKeymap # Undefined \/ h.currentCommonKeymap # Undefined)

\* A key that only the wildcard of the root binds led to the wildcard's
\* sub-keymap.
C19_Witness ==
    /\ keyEventHandler.keymap = "W"
    /\ ~keyEventHandler.commandMode
    /\ keyEventHandler.keys = <<"x">>
    /\ keyEventHandler.currentKeymap = "Wany"
    /\ result = Nothing

\* C20 (single input subscription): whatever the setMode calls and their
\* interleaving, at most one 'type' subscription is registered at any time,
\* and one is registered exactly when typeCommandSubscription holds it: none
\* is registered twice and none stays registered without being held.
C20_SingleSubscription ==
    /\ typeHandlers <= 1
    /\ typeCommandSubscription <=> typeHandlers = 1

\* Two setMode calls to modes other than insert have both finished, and one
\* subscription is registered.
C20_Witness ==
    /\ calls[1] = [pc |-> "idle", mode |-> SELECT]
    /\ calls[2] = [pc |-> "idle", mode |-> COMMAND]
    /\ typeCommandSubscription
    /\ typeHandlers = 1

====
